---- MODULE Spec2Model ----
(***************************************************************************)
(* VisitCounterService (app/services/visit_counter.py): a per-page visit   *)
(* counter in front of a Redis store, with a read cache (5 s TTL) and a    *)
(* write buffer that is flushed to Redis when 30 s have passed since the   *)
(* last flush.                                                             *)
(*                                                                         *)
(* The handlers are coroutines on one event loop and the Redis client is   *)
(* the blocking one (redis.Redis), so no handler contains a suspension     *)
(* point: `await self._flush_buffer()` runs the flush to its end.  Each    *)
(* handler is therefore one atomic action.                                 *)
(*                                                                         *)
(* Time.  The code keeps timestamps and only ever compares                 *)
(* `time.time() - stamp` with a threshold.  The model keeps those          *)
(* differences: flush_age is time.time() - last_flush_time and a cache     *)
(* entry's age is time.time() - entry["timestamp"].  A difference that     *)
(* has reached its threshold is kept at the threshold (the comparison      *)
(* cannot tell larger values apart), which keeps the state space finite    *)
(* while time runs on for ever.                                            *)
(*                                                                         *)
(* Store.  Every call to Redis (get, pipeline.execute) either succeeds or  *)
(* raises.  While store_ok holds every call succeeds; otherwise each call  *)
(* fails or succeeds independently.                                        *)
(***************************************************************************)
EXTENDS Integers, Sequences, FiniteSets, TLC

\* page ids the callers use
Keys == {"a", "b"}

\* self.cache_ttl and self.flush_interval, in seconds
cache_ttl == 5
flush_interval == 30

\* at most MaxVisits increment_visit calls are made
MaxVisits == 2
\* a flush that re-applies deltas is explored only while store + buffer of
\* each page stays within MaxStore
MaxStore == 3

\* the clock advances by one of these amounts between calls: less than the
\* cache TTL, and what is then missing to a full flush interval
TickSteps == {cache_ttl - 1, flush_interval - cache_ttl + 1}

VARIABLES
    redis,          \* the store: page id -> value of "page:<id>" (absent: no such key)
    write_buffer,   \* self._write_buffer, a dict in insertion order: <<[page_id, count], ...>>
    cache,          \* self._cache: page id -> [count, age]
    flush_age,      \* time.time() - self.last_flush_time, kept at flush_interval once reached
    store_ok,       \* TRUE: every store call succeeds; FALSE: each call may fail
    accepted,       \* history: page id -> number of increments added to the write buffer
    resp,           \* the response of the call just made
    last,           \* history: what the step just made did (flush_calls: store calls of its flush)
    all_failed,     \* history: every store call made so far has failed
    execs_now       \* history: pipeline.execute calls issued since the clock last advanced

vars == <<redis, write_buffer, cache, flush_age, store_ok, accepted, resp, last,
          all_failed, execs_now>>

Min(a, b) == IF a <= b THEN a ELSE b

----------------------------------------------------------------------------
\* Python dicts (redis keys, self._cache)

\* d.get(k, default)
Get(d, k, default) == IF k \in DOMAIN d THEN d[k] ELSE default

\* d[k] = v
Put(d, k, v) == [x \in DOMAIN d \cup {k} |-> IF x = k THEN v ELSE d[x]]

EmptyDict == [x \in {} |-> 0]

----------------------------------------------------------------------------
\* self._write_buffer: a dict whose iteration order is insertion order

BufKeys(b) == {b[i].page_id : i \in 1..Len(b)}

\* self._write_buffer.get(page_id, 0)
BufGet(b, k) ==
    IF k \in BufKeys(b)
    THEN b[CHOOSE i \in 1..Len(b) : b[i].page_id = k].count
    ELSE 0

\* a mutation: the pending count is overwritten (= n) instead of added to (+= n)
BufAddOverwrite(b, k, n) ==
    LET b0 == IF k \in BufKeys(b) THEN b
              ELSE Append(b, [page_id |-> k, count |-> 0])
    IN  [i \in 1..Len(b0) |->
            IF b0[i].page_id = k THEN [b0[i] EXCEPT !.count = n] ELSE b0[i]]

\* if page_id not in self._write_buffer: self._write_buffer[page_id] = 0
\* self._write_buffer[page_id] += n
BufAdd(b, k, n) ==
    LET b0 == IF k \in BufKeys(b) THEN b
              ELSE Append(b, [page_id |-> k, count |-> 0])
    IN  [i \in 1..Len(b0) |->
            IF b0[i].page_id = k THEN [b0[i] EXCEPT !.count = @ + n] ELSE b0[i]]

----------------------------------------------------------------------------
\* Store calls and exceptions.  A result is a record with a `raised` flag.

\* self.redis_client.get(f"page:{page_id}"): the value, None for a missing
\* key, or an exception when the call fails
ClientGet(rds, page_id, fails) ==
    IF fails
    THEN [raised |-> TRUE, found |-> FALSE, value |-> 0]
    ELSE [raised |-> FALSE, found |-> page_id \in DOMAIN rds,
          value |-> Get(rds, page_id, 0)]

\* int(reply or 0)
IntOrZero(reply) == IF reply.found THEN reply.value ELSE 0

\* a mutation: the except clause does not catch the error
CatchNothing(r, fallback) == r

\* try: r  except Exception: fallback
Catch(r, fallback) == IF r.raised THEN fallback ELSE r

\* a mutation: the store is not consulted, the count is taken to be 0
ReadRedisCountZero(rds, page_id, fails) == [raised |-> FALSE, value |-> 0]

\* try: redis_count = int(self.redis_client.get(...) or 0)
\* except Exception: redis_count = 0
ReadRedisCount(rds, page_id, fails) ==
    LET reply == ClientGet(rds, page_id, fails)
    IN  Catch([raised |-> reply.raised, value |-> IntOrZero(reply)],
              [raised |-> FALSE, value |-> 0])

----------------------------------------------------------------------------
\* _flush_buffer

\* pipeline.incrby(f"page:{page_id}", count) for every entry, then execute()
RECURSIVE PipelineExecute(_, _, _)
PipelineExecute(rds, snap, i) ==
    IF i > Len(snap) THEN rds
    ELSE PipelineExecute(
            Put(rds, snap[i].page_id, Get(rds, snap[i].page_id, 0) + snap[i].count),
            snap, i + 1)

\* for page_id in buffer_to_flush: if page_id in self._cache: re-read, refresh.
\* The read made in iteration fail_at raises (0: none does), which ends the loop.
\* `reads` is the number of store reads the loop made.
\* a mutation: the loop that refreshes the cache is missing
RefreshCacheSkip(cch, rds, snap, i, fail_at) ==
    [raised |-> FALSE, cache |-> cch, reads |-> 0]

RECURSIVE RefreshCache(_, _, _, _, _)
RefreshCache(cch, rds, snap, i, fail_at) ==
    IF i > Len(snap) THEN [raised |-> FALSE, cache |-> cch, reads |-> 0]
    ELSE LET k == snap[i].page_id
         IN  IF k \notin DOMAIN cch
             THEN RefreshCache(cch, rds, snap, i + 1, fail_at)
             ELSE LET reply == ClientGet(rds, k, i = fail_at)
                  IN  IF reply.raised
                      THEN [raised |-> TRUE, cache |-> cch, reads |-> 1]
                      ELSE LET rest == RefreshCache(
                                  Put(cch, k, [count |-> IntOrZero(reply), age |-> 0]),
                                  rds, snap, i + 1, fail_at)
                           IN  [rest EXCEPT !.reads = @ + 1]

\* a mutation: the except block forgets the snapshot
RestoreBufferDrop(b, snap, i) == b

\* except Exception: for page_id, count in buffer_to_flush.items():
\*     if page_id not in self._write_buffer: self._write_buffer[page_id] = 0
\*     self._write_buffer[page_id] += count
RECURSIVE RestoreBuffer(_, _, _)
RestoreBuffer(b, snap, i) ==
    IF i > Len(snap) THEN b
    ELSE RestoreBuffer(BufAdd(b, snap[i].page_id, snap[i].count), snap, i + 1)

\* the flush did not run
NoFlush(wb, rds, cch) ==
    [write_buffer |-> wb, redis |-> rds, cache |-> cch,
     outcome |-> "none", snapshot |-> <<>>, calls |-> 0]

\* a mutation: the test for an empty buffer is missing
BufferEmptyNever(wb) == FALSE

\* not self._write_buffer
BufferEmpty(wb) == wb = <<>>

\* a mutation: the buffer is copied and not cleared
ClearedNot(wb) == wb

\* self._write_buffer.clear()
Cleared(wb) == <<>>

\* _flush_buffer(): the buffer, store and cache it leaves, and how it ended:
\*   "empty"           the buffer was empty, nothing was done
\*   "ok"              execute() and every re-read succeeded
\*   "exec_failed"     execute() raised
\*   "refresh_failed"  execute() succeeded and a re-read raised
\* `calls` is the number of store calls it made.
FlushBuffer(wb, rds, cch, exec_fails, fail_at) ==
    IF BufferEmpty(wb)
    THEN [write_buffer |-> wb, redis |-> rds, cache |-> cch,
          outcome |-> "empty", snapshot |-> <<>>, calls |-> 0]
    ELSE LET buffer_to_flush == wb
             cleared == Cleared(wb)
         IN  IF exec_fails
             THEN [write_buffer |-> RestoreBuffer(cleared, buffer_to_flush, 1),
                   redis |-> rds, cache |-> cch,
                   outcome |-> "exec_failed", snapshot |-> buffer_to_flush,
                   calls |-> 1]
             ELSE LET rds2 == PipelineExecute(rds, buffer_to_flush, 1)
                      ref == RefreshCache(cch, rds2, buffer_to_flush, 1, fail_at)
                  IN  IF ref.raised
                      THEN [write_buffer |-> RestoreBuffer(cleared, buffer_to_flush, 1),
                            redis |-> rds2, cache |-> ref.cache,
                            outcome |-> "refresh_failed", snapshot |-> buffer_to_flush,
                            calls |-> 1 + ref.reads]
                      ELSE [write_buffer |-> cleared,
                            redis |-> rds2, cache |-> ref.cache,
                            outcome |-> "ok", snapshot |-> buffer_to_flush,
                            calls |-> 1 + ref.reads]

----------------------------------------------------------------------------
\* The handlers

\* which outcomes a store call can have now
Fails == IF store_ok THEN {FALSE} ELSE BOOLEAN

\* a mutation: the due check is missing, no call starts a flush
DueNever(age) == FALSE

\* a mutation: the age is compared with the cache TTL
DueEarly(age) == age >= cache_ttl

\* current_time - self.last_flush_time >= self.flush_interval
Due(age) == age >= flush_interval

\* a mutation: a cache entry is fresh for ever
IsFreshAlways(entry) == TRUE

\* current_time - cache_entry["timestamp"] < self.cache_ttl
IsFresh(entry) == entry.age < cache_ttl

\* a mutation: last_flush_time is set only when the flush wrote to the store
AgeAfterCheckOnSuccess(due, outcome, age) ==
    IF due /\ outcome \in {"ok", "refresh_failed"} THEN 0 ELSE age

\* if due: await self._flush_buffer(); self.last_flush_time = current_time
AgeAfterCheck(due, outcome, age) == IF due THEN 0 ELSE age

\* the except clause of the handlers: {"visits": 0, "served_via": "in_memory"}
Fallback == [raised |-> FALSE, visits |-> 0, served_via |-> "in_memory"]

NoResp == [raised |-> FALSE, visits |-> 0, served_via |-> "none"]

NoCall ==
    [op |-> "init", page_id |-> "", due |-> FALSE, flush |-> "none",
     flush_calls |-> 0, read_failed |-> FALSE, hit |-> FALSE]

\* the store stays within the explored range: a flush that leaves its deltas
\* both in the store and in the buffer is explored up to MaxStore
InRange(f) ==
    f.outcome = "refresh_failed" =>
        \A k \in Keys : Get(f.redis, k, 0) + BufGet(f.write_buffer, k) <= MaxStore

Sum(f) == f["a"] + f["b"]

\* increment_visit(page_id)
IncrementVisit(page_id) ==
    /\ Sum(accepted) < MaxVisits
    /\ \E exec_fails \in Fails, read_fails \in Fails, fail_at \in 0..Len(write_buffer) :
        LET due == Due(flush_age)
            f == IF due
                 THEN FlushBuffer(write_buffer, redis, cache, exec_fails, fail_at)
                 ELSE NoFlush(write_buffer, redis, cache)
            wb == BufAdd(f.write_buffer, page_id, 1)
            rc == ReadRedisCount(f.redis, page_id, read_fails)
            total == rc.value + BufGet(wb, page_id)
            body == IF rc.raised
                    THEN [raised |-> TRUE, visits |-> 0, served_via |-> "none"]
                    ELSE [raised |-> FALSE, visits |-> total, served_via |-> "redis"]
        IN  /\ fail_at > 0 => ~store_ok /\ due /\ ~exec_fails
            /\ exec_fails => due /\ write_buffer # <<>>
            /\ InRange(f)
            /\ redis' = f.redis
            /\ write_buffer' = wb
            /\ cache' = IF rc.raised THEN f.cache
                        ELSE Put(f.cache, page_id, [count |-> total, age |-> 0])
            /\ flush_age' = AgeAfterCheck(due, f.outcome, flush_age)
            /\ accepted' = [accepted EXCEPT ![page_id] = @ + 1]
            /\ resp' = Catch(body, Fallback)
            /\ last' = [op |-> "increment", page_id |-> page_id, due |-> due,
                        flush |-> f.outcome, flush_calls |-> f.calls,
                        read_failed |-> read_fails, hit |-> FALSE]
            /\ all_failed' = (all_failed /\ read_fails
                                /\ f.outcome \notin {"ok", "refresh_failed"})
            /\ execs_now' = execs_now
                    + (IF f.outcome \in {"ok", "exec_failed", "refresh_failed"} THEN 1 ELSE 0)
    /\ UNCHANGED store_ok

\* get_visit_count(page_id), answered from the cache
GetVisitCountHit(page_id) ==
    /\ page_id \in DOMAIN cache
    /\ IsFresh(cache[page_id])
    /\ resp' = Catch([raised |-> FALSE, visits |-> cache[page_id].count,
                      served_via |-> "in_memory"], Fallback)
    /\ last' = [op |-> "get", page_id |-> page_id, due |-> FALSE, flush |-> "none",
                flush_calls |-> 0, read_failed |-> FALSE, hit |-> TRUE]
    /\ UNCHANGED <<redis, write_buffer, cache, flush_age, store_ok, accepted,
                   all_failed, execs_now>>

\* get_visit_count(page_id), cache miss or expired entry
GetVisitCountMiss(page_id) ==
    /\ ~(page_id \in DOMAIN cache /\ IsFresh(cache[page_id]))
    /\ \E exec_fails \in Fails, read_fails \in Fails, fail_at \in 0..Len(write_buffer) :
        LET due == Due(flush_age)
            f == IF due
                 THEN FlushBuffer(write_buffer, redis, cache, exec_fails, fail_at)
                 ELSE NoFlush(write_buffer, redis, cache)
            rc == ReadRedisCount(f.redis, page_id, read_fails)
            total == rc.value + BufGet(f.write_buffer, page_id)
            body == IF rc.raised
                    THEN [raised |-> TRUE, visits |-> 0, served_via |-> "none"]
                    ELSE [raised |-> FALSE, visits |-> total, served_via |-> "redis"]
        IN  /\ fail_at > 0 => ~store_ok /\ due /\ ~exec_fails
            /\ exec_fails => due /\ write_buffer # <<>>
            /\ InRange(f)
            /\ redis' = f.redis
            /\ write_buffer' = f.write_buffer
            /\ cache' = IF rc.raised THEN f.cache
                        ELSE Put(f.cache, page_id, [count |-> total, age |-> 0])
            /\ flush_age' = AgeAfterCheck(due, f.outcome, flush_age)
            /\ resp' = Catch(body, Fallback)
            /\ last' = [op |-> "get", page_id |-> page_id, due |-> due,
                        flush |-> f.outcome, flush_calls |-> f.calls,
                        read_failed |-> read_fails, hit |-> FALSE]
            /\ all_failed' = (all_failed /\ read_fails
                                /\ f.outcome \notin {"ok", "refresh_failed"})
            /\ execs_now' = execs_now
                    + (IF f.outcome \in {"ok", "exec_failed", "refresh_failed"} THEN 1 ELSE 0)
    /\ UNCHANGED <<store_ok, accepted>>

\* get_visit_count(page_id)
GetVisitCount(page_id) == GetVisitCountHit(page_id) \/ GetVisitCountMiss(page_id)

\* time.time() advances by d seconds
Tick(d) ==
    /\ flush_age' = Min(flush_age + d, flush_interval)
    /\ cache' = [k \in DOMAIN cache |->
                    [cache[k] EXCEPT !.age = Min(@ + d, cache_ttl)]]
    /\ resp' = NoResp
    /\ last' = [NoCall EXCEPT !.op = "tick"]
    /\ execs_now' = 0
    /\ UNCHANGED <<redis, write_buffer, store_ok, accepted, all_failed>>

\* the store becomes unreliable, or reliable again
StoreChange ==
    /\ store_ok' = ~store_ok
    /\ resp' = NoResp
    /\ last' = [NoCall EXCEPT !.op = "env"]
    /\ UNCHANGED <<redis, write_buffer, cache, flush_age, accepted, all_failed, execs_now>>

\* VisitCounterService.__init__
Init ==
    /\ redis = EmptyDict
    /\ write_buffer = <<>>
    /\ cache = EmptyDict
    /\ flush_age = 0
    /\ store_ok \in BOOLEAN
    /\ accepted = [k \in Keys |-> 0]
    /\ resp = NoResp
    /\ last = NoCall
    /\ all_failed = TRUE
    /\ execs_now = 0

Next ==
    \/ \E k \in Keys : IncrementVisit(k)
    \/ \E k \in Keys : GetVisitCountHit(k)
    \/ \E k \in Keys : GetVisitCountMiss(k)
    \/ \E d \in TickSteps : Tick(d)
    \/ StoreChange

Spec == Init /\ [][Next]_vars

\* the store recovers, and stays available from then on
StoreRecover == ~store_ok /\ StoreChange

\* the pages called in the liveness check
LiveKeys == {"a"}

LiveNext ==
    \/ \E k \in LiveKeys : IncrementVisit(k)
    \/ \E k \in LiveKeys : GetVisitCountHit(k)
    \/ \E k \in LiveKeys : GetVisitCountMiss(k)
    \/ \E d \in TickSteps : Tick(d)
    \/ StoreRecover

\* The store eventually becomes and stays available, time keeps advancing and
\* calls keep arriving: the event loop serves every request it is sent.
LiveSpec ==
    /\ Init
    /\ [][LiveNext]_vars
    /\ WF_vars(StoreRecover)
    /\ WF_vars(\E d \in TickSteps : Tick(d))
    /\ WF_vars(\E k \in LiveKeys : GetVisitCount(k))

----------------------------------------------------------------------------
\* Properties

\* the step just made was a call of increment_visit or get_visit_count
IsCall == last.op \in {"increment", "get"}

\* the increment the call just made added to the buffer entry of k
OwnIncrement(l, k) == IF l.op = "increment" /\ l.page_id = k THEN 1 ELSE 0

\* the flush of the call just made wrote its batch to the store
ExecSucceeded == last.flush \in {"ok", "refresh_failed"}

\* C1: in every reachable state and for every page k, the store's total of k
\* plus the buffer entry of k is the number of increments of k accepted so far.
C1_TrueTotal ==
    \A k \in Keys : Get(redis, k, 0) + BufGet(write_buffer, k) = accepted[k]

\* C2: right after a flush that succeeds, the store's total of every page k is
\* the number N of increments of k made before that flush, and the buffer
\* holds nothing of them (only the increment of the call that flushed).
C2_NoLostIncrements ==
    last.flush = "ok" =>
        \A k \in Keys :
            /\ Get(redis, k, 0) = accepted[k] - OwnIncrement(last, k)
            /\ BufGet(write_buffer, k) = OwnIncrement(last, k)

\* C3: after a flush whose pipeline.execute() succeeded, none of the
\* snapshot's deltas is in the write buffer, whatever the rest of the flush
\* did: the buffer holds only what was added after the snapshot.
C3_NoDoubleCount ==
    ExecSucceeded =>
        \A k \in Keys : BufGet(write_buffer, k) = OwnIncrement(last, k)

\* C4: a flush whose pipeline.execute() fails leaves the store as it was and
\* puts the snapshot back by key-wise addition: every buffer entry is the
\* snapshot's delta plus what was added since; the call still answers.
C4_FailedFlushRemerges ==
    [][last'.flush = "exec_failed" =>
        /\ redis' = redis
        /\ \A k \in Keys :
              BufGet(write_buffer', k)
                 = BufGet(write_buffer, k) + OwnIncrement(last', k)
        /\ ~resp'.raised
        /\ resp'.served_via = "redis"]_vars

\* a failed flush put back the delta of a page, and the same call added one more
C4_Witness ==
    /\ last.op = "increment"
    /\ last.flush = "exec_failed"
    /\ BufGet(write_buffer, last.page_id) >= 2

\* C5: while every store call has failed, every accepted increment is in the
\* write buffer and get_visit_count(k) returns the number K of
\* increment_visit(k) calls made, also across failed flushes.
C5_DegradedReadCount ==
    all_failed =>
        /\ \A k \in Keys : BufGet(write_buffer, k) = accepted[k]
        /\ last.op = "get" => resp.visits = accepted[last.page_id]

\* two increments, then a read whose due flush and store read both failed
C5_Witness ==
    /\ all_failed
    /\ last.op = "get"
    /\ last.flush = "exec_failed"
    /\ last.read_failed
    /\ resp.visits = 2

\* C6: a call whose store read failed answers with a served_via other than
\* the one of a successful store read ("redis").
C6_DegradedTag ==
    (IsCall /\ last.read_failed) => resp.served_via # "redis"

\* C7: every call returns a response with a visits count and a served_via
\* tag; no failure of the store reaches the caller as an error.
C7_AlwaysResponds ==
    IsCall =>
        /\ ~resp.raised
        /\ resp.visits \in Nat
        /\ resp.served_via \in {"redis", "in_memory"}

\* a call during which the batched write and the store read both failed
C7_Witness ==
    /\ IsCall
    /\ last.flush = "exec_failed"
    /\ last.read_failed
    /\ ~resp.raised

\* C8: get_visit_count(k) answers from the cache ("in_memory", the cached
\* count) exactly when k has an entry younger than cache_ttl; otherwise it
\* answers "redis" with the store's total (0 when the read fails) plus the
\* buffer entry.
C8_CacheFreshness ==
    [][\A k \in Keys :
        (last'.op = "get" /\ last'.page_id = k) =>
            LET fresh == k \in DOMAIN cache /\ cache[k].age < cache_ttl
                recomputed ==
                    (IF last'.read_failed THEN 0 ELSE Get(redis', k, 0))
                        + BufGet(write_buffer', k)
            IN  /\ (resp'.served_via = "in_memory") <=> fresh
                /\ fresh => resp'.visits = cache[k].count /\ last'.hit
                /\ ~fresh => resp'.visits = recomputed /\ resp'.served_via = "redis"
       ]_vars

\* a read answered from an entry that is cache_ttl - 1 seconds old
C8_Witness ==
    /\ last.op = "get"
    /\ last.hit
    /\ resp.served_via = "in_memory"
    /\ cache[last.page_id].age = cache_ttl - 1

C10_EventuallyFlushed ==
    \A k \in LiveKeys :
        (BufGet(write_buffer, k) > 0)
            ~> (BufGet(write_buffer, k) = 0 /\ Get(redis, k, 0) >= accepted[k])

\* after a failed flush, a later flush wrote the pending increments
C10_Witness ==
    /\ ~all_failed
    /\ last.flush = "ok"
    /\ store_ok
    /\ write_buffer = <<>>
    /\ accepted["a"] = MaxVisits
    /\ Get(redis, "a", 0) >= accepted["a"]

----------------------------------------------------------------------------
\* Every store read succeeds (the reads of the handlers and the re-reads of
\* the flush); pipeline.execute() may still fail while store_ok is false.
ReadsOk == ~last'.read_failed /\ last'.flush # "refresh_failed"

ReadsOkNext ==
    \/ \E k \in Keys : IncrementVisit(k) /\ ReadsOk
    \/ \E k \in Keys : GetVisitCountHit(k)
    \/ \E k \in Keys : GetVisitCountMiss(k) /\ ReadsOk
    \/ \E d \in TickSteps : Tick(d)
    \/ StoreChange

ReadsOkSpec == Init /\ [][ReadsOkNext]_vars

\* "no entry", for comparing the cache entry of a page before and after a step
NoEntry == [count |-> -1, age |-> -1]

\* the step leaves the cache entry of k as it was
CacheKept(k) == Get(cache', k, NoEntry) = Get(cache, k, NoEntry)

\* the step just made is a call that did not answer from the cache
IsMiss(l) == l.op \in {"increment", "get"} /\ ~l.hit

\* C11: when its store read succeeds, increment_visit(k) returns the store's
\* total of k plus the buffer entry of k as they are after its own increment
\* (and after the flush it triggered), caches exactly that total with a fresh
\* timestamp and answers "redis"; the total counts the visit being recorded.
C11_IncrementReturnsTotal ==
    (last.op = "increment" /\ ~last.read_failed) =>
        LET k == last.page_id
            total == Get(redis, k, 0) + BufGet(write_buffer, k)
        IN  /\ resp.visits = total
            /\ resp.served_via = "redis"
            /\ k \in DOMAIN cache
            /\ cache[k] = [count |-> total, age |-> 0]
            /\ BufGet(write_buffer, k) >= 1

\* an increment that flushed first: its total is store (old visits) + buffer (this one)
C11_Witness ==
    /\ last.op = "increment"
    /\ ~last.read_failed
    /\ last.flush = "ok"
    /\ Get(redis, last.page_id, 0) = 1
    /\ resp.visits = 2

\* C12: a flush whose pipeline.execute() failed leaves last_flush_time as it
\* was, so the flush is still due for the next call.
C12_FailedFlushStaysDue ==
    last.flush = "exec_failed" => flush_age >= flush_interval

\* C13: the cache entry a call writes for its page holds the store's total
\* plus the buffer entry of that page, also when the store read failed.
C13_CacheIsSnapshot ==
    IsMiss(last) =>
        /\ last.page_id \in DOMAIN cache
        /\ cache[last.page_id].count
             = Get(redis, last.page_id, 0) + BufGet(write_buffer, last.page_id)

C15_FlushTriggering ==
    [][/\ last'.flush # "none" =>
            IsMiss(last') /\ last'.due /\ flush_age >= flush_interval
       /\ IsMiss(last') =>
            /\ last'.due <=> flush_age >= flush_interval
            /\ last'.due => last'.flush # "none"
            /\ ~last'.read_failed =>
                  resp'.visits = Get(redis', last'.page_id, 0)
                                    + BufGet(write_buffer', last'.page_id)
       /\ (last'.op = "get" /\ last'.hit) => ~last'.due /\ last'.flush = "none"
       /\ redis' # redis => flush_age >= flush_interval
      ]_vars

\* a read answered from the cache while the flush is due: no check, no flush
C15_Witness ==
    /\ last.op = "get"
    /\ last.hit
    /\ flush_age >= flush_interval
    /\ write_buffer # <<>>

\* C16: after a flush that succeeded, last_flush_time is the current time and
\* every page of the snapshot has a cache entry stamped now that holds the
\* store's new total (for the page of the calling increment_visit: that total
\* plus its own increment, written by the call right after the flush).
C16_FlushRefreshesCache ==
    [][last'.flush = "ok" =>
        /\ flush_age' = 0
        /\ \A k \in BufKeys(write_buffer) :
              /\ k \in DOMAIN cache'
              /\ cache'[k].age = 0
              /\ (k # last'.page_id \/ ~last'.read_failed) =>
                    cache'[k].count = Get(redis', k, 0) + OwnIncrement(last', k)
      ]_vars

\* a read of one page whose flush refreshed the entry of the other page
C16_Witness ==
    /\ last.op = "get"
    /\ last.flush = "ok"
    /\ \E k \in Keys \ {last.page_id} :
          /\ k \in DOMAIN cache
          /\ cache[k] = [count |-> Get(redis, k, 0), age |-> 0]
          /\ Get(redis, k, 0) >= 1

\* C17: a due flush that finds the write buffer empty makes no store call and
\* leaves the store, the buffer and the cache as they were (the call then
\* adds its own increment and writes the cache entry of its own page).
C17_EmptyFlushTouchesNothing ==
    [][(IsMiss(last') /\ flush_age >= flush_interval /\ write_buffer = <<>>) =>
        /\ last'.flush = "empty"
        /\ last'.flush_calls = 0
        /\ execs_now' = execs_now
        /\ redis' = redis
        /\ \A k \in Keys : BufGet(write_buffer', k) = OwnIncrement(last', k)
        /\ \A k \in Keys \ {last'.page_id} : CacheKept(k)
      ]_vars

\* a due flush with nothing to write, in a service that has flushed before
C17_Witness ==
    /\ last.op = "get"
    /\ last.flush = "empty"
    /\ \E k \in Keys \ {last.page_id} : Get(redis, k, 0) >= 1 /\ k \in DOMAIN cache

\* C18: a call made while no flush is due writes nothing to the store: it
\* changes the buffer entry of its page by +1 (increment_visit) or not at all
\* (get_visit_count), and no cache entry but that of its page (none when it
\* answers from the cache); the clock and the store's availability change
\* neither the store nor the buffer.
C18_NoStoreWriteOutsideFlush ==
    [][/\ (last'.op \in {"increment", "get"} /\ flush_age < flush_interval) =>
            /\ redis' = redis
            /\ flush_age' = flush_age
            /\ \A k \in Keys :
                  BufGet(write_buffer', k)
                     = BufGet(write_buffer, k) + OwnIncrement(last', k)
            /\ \A k \in Keys \ {last'.page_id} : CacheKept(k)
            /\ last'.hit => CacheKept(last'.page_id)
       /\ last'.op \in {"tick", "env"} =>
            redis' = redis /\ write_buffer' = write_buffer
      ]_vars

\* an increment outside a flush, with a total in the store and another page cached
C18_Witness ==
    /\ last.op = "increment"
    /\ last.flush = "none"
    /\ \E k \in Keys \ {last.page_id} : Get(redis, k, 0) >= 1 /\ k \in DOMAIN cache

\* C19: while every store read succeeds, every call for page k returns the
\* number of increment_visit(k) calls made so far, whether flushes failed or
\* not: so the values returned for k never decrease, each increment_visit(k)
\* returns one more than the one before, and a read never returns less than
\* the increment before it.
C19_MonotonicVisibleCount ==
    IsCall => resp.visits = accepted[last.page_id]

\* a read after two increments and a failed flush
C19_Witness ==
    /\ last.op = "get"
    /\ last.flush = "exec_failed"
    /\ resp.visits = 2

====
